---- MODULE Spec2Model ----
(***************************************************************************)
(* Model of src/code-doc.py: class AnomalyDetector (EWMA + z-score).       *)
(*                                                                         *)
(* The detector computes with Python floats, i.e. IEEE-754 binary64 with   *)
(* round-to-nearest, ties-to-even.  The arithmetic is modelled bit-exactly *)
(* for the normal range: a float is a sign, a 53-bit mantissa and an       *)
(* unbounded exponent.  Mantissas do not fit a machine integer of the      *)
(* model checker, so natural numbers are little-endian sequences of limbs  *)
(* in base 2^15.  The inputs of the model are far away from the overflow   *)
(* and underflow thresholds of binary64, so the exponent range, NaN and    *)
(* the infinities are not modelled; the sign of a zero is not modelled     *)
(* either (no modelled result depends on it).                              *)
(***************************************************************************)
EXTENDS Integers, Sequences, FiniteSets

----------------------------------------------------------------------------
(* Natural numbers of arbitrary size: little-endian limbs, no leading zero *)
(* limb, zero is the empty sequence.                                       *)

LimbBits == 15
Base == 32768
MantBits == 53

RECURSIVE Pow2(_)
Pow2(k) == IF k = 0 THEN 1 ELSE 2 * Pow2(k - 1)

RECURSIVE BNorm(_)
BNorm(a) ==
    IF a = <<>> THEN <<>>
    ELSE IF a[Len(a)] = 0 THEN BNorm(SubSeq(a, 1, Len(a) - 1))
    ELSE a

RECURSIVE BFromNat(_)
BFromNat(k) == IF k = 0 THEN <<>> ELSE <<k % Base>> \o BFromNat(k \div Base)

RECURSIVE BAddC(_, _, _)
BAddC(a, b, c) ==
    IF a = <<>> /\ b = <<>> THEN (IF c = 0 THEN <<>> ELSE <<c>>)
    ELSE LET x == IF a = <<>> THEN 0 ELSE a[1]
             y == IF b = <<>> THEN 0 ELSE b[1]
             t == x + y + c
         IN  <<t % Base>> \o BAddC(IF a = <<>> THEN a ELSE Tail(a),
                                   IF b = <<>> THEN b ELSE Tail(b),
                                   t \div Base)

BAdd(a, b) == BAddC(a, b, 0)

\* a - b - c on limbs, for a >= b + c; the result may carry leading zeros
RECURSIVE BSubC(_, _, _)
BSubC(a, b, c) ==
    IF a = <<>> THEN <<>>
    ELSE LET y == IF b = <<>> THEN 0 ELSE b[1]
             t == a[1] - y - c
         IN  <<IF t < 0 THEN t + Base ELSE t>>
             \o BSubC(Tail(a), IF b = <<>> THEN b ELSE Tail(b),
                      IF t < 0 THEN 1 ELSE 0)

BSub(a, b) == BNorm(BSubC(a, b, 0))

\* -1, 0, 1 as a < b, a = b, a > b
RECURSIVE BCmpFrom(_, _, _)
BCmpFrom(a, b, i) ==
    IF i = 0 THEN 0
    ELSE IF a[i] < b[i] THEN -1
    ELSE IF a[i] > b[i] THEN 1
    ELSE BCmpFrom(a, b, i - 1)

BCmp(a, b) ==
    IF Len(a) < Len(b) THEN -1
    ELSE IF Len(a) > Len(b) THEN 1
    ELSE BCmpFrom(a, b, Len(a))

RECURSIVE BMulSmallC(_, _, _)
BMulSmallC(a, k, c) ==
    IF a = <<>> THEN (IF c = 0 THEN <<>> ELSE <<c>>)
    ELSE LET t == a[1] * k + c
         IN  <<t % Base>> \o BMulSmallC(Tail(a), k, t \div Base)

\* a * k for 0 <= k < Base
BMulSmall(a, k) == IF k = 0 THEN <<>> ELSE BMulSmallC(a, k, 0)

RECURSIVE BMul(_, _)
BMul(a, b) ==
    IF a = <<>> \/ b = <<>> THEN <<>>
    ELSE LET rest == BMul(a, Tail(b))
         IN  BAdd(BMulSmall(a, b[1]),
                  IF rest = <<>> THEN <<>> ELSE <<0>> \o rest)

\* floor(a / k) for 0 < k < Base, limbs taken from the top with remainder r
RECURSIVE BDivSmallR(_, _, _, _)
BDivSmallR(a, k, i, r) ==
    IF i = 0 THEN <<>>
    ELSE LET t == r * Base + a[i]
         IN  BDivSmallR(a, k, i - 1, t % k) \o <<t \div k>>

BDivSmall(a, k) == BNorm(BDivSmallR(a, k, Len(a), 0))

RECURSIVE Zeros(_)
Zeros(k) == IF k = 0 THEN <<>> ELSE <<0>> \o Zeros(k - 1)

\* a * 2^k
BShl(a, k) ==
    IF a = <<>> THEN <<>>
    ELSE Zeros(k \div LimbBits) \o BMulSmall(a, Pow2(k % LimbBits))

\* floor(a / 2^k)
BShr(a, k) ==
    IF Len(a) <= k \div LimbBits THEN <<>>
    ELSE BDivSmall(SubSeq(a, (k \div LimbBits) + 1, Len(a)), Pow2(k % LimbBits))

RECURSIVE BitLenSmall(_)
BitLenSmall(k) == IF k = 0 THEN 0 ELSE 1 + BitLenSmall(k \div 2)

BBitLen(a) ==
    IF a = <<>> THEN 0
    ELSE LimbBits * (Len(a) - 1) + BitLenSmall(a[Len(a)])

BOdd(a) == a # <<>> /\ a[1] % 2 = 1

BOne == <<1>>

BDouble(a) == BAddC(a, a, 0)

\* binary long division: i more quotient bits of (r * 2^i) / d, on top of
\* the small quotient q
RECURSIVE BDivDigit(_, _, _, _)
BDivDigit(q, r, d, i) ==
    IF i = 0 THEN [q |-> q, r |-> r]
    ELSE IF BCmp(BDouble(r), d) >= 0
    THEN BDivDigit(2 * q + 1, BSub(BDouble(r), d), d, i - 1)
    ELSE BDivDigit(2 * q, BDouble(r), d, i - 1)

BDivPrepend(digit, rest) == [q |-> Append(rest.q, digit), r |-> rest.r]

\* floor((r * Base^nl) / d) as nl limbs, and the remainder, for r < d
RECURSIVE BDivLimbs(_, _, _)
RECURSIVE BDivRest(_, _, _)
BDivRest(top, d, nl) == BDivPrepend(top.q, BDivLimbs(top.r, d, nl - 1))

BDivLimbs(r, d, nl) ==
    IF nl = 0 THEN [q |-> <<>>, r |-> r]
    ELSE BDivRest(BDivDigit(0, r, d, LimbBits), d, nl)

\* the bits 2i+1 and 2i of a, as a number in 0..3
BPair(a, i) ==
    LET t == BShr(a, 2 * i)
    IN  IF t = <<>> THEN 0 ELSE t[1] % 4

\* a + k for a small k and an a whose lowest limb has room for it
BAddSmall(a, k) ==
    IF k = 0 THEN a
    ELSE IF a = <<>> THEN <<k>>
    ELSE [a EXCEPT ![1] = a[1] + k]

\* the remainder with the next two bits of the argument shifted in: the
\* bits of a first, then zeros
BSqrtShiftIn(rem, a, zeros, i) ==
    BAddSmall(BMulSmall(rem, 4), IF i > zeros THEN BPair(a, i - zeros - 1) ELSE 0)

\* 4 * root + 1, the amount the next root bit takes out of the remainder
BSqrtTrial(root) == BAddSmall(BMulSmall(root, 4), 1)

\* digit-by-digit square root: floor(sqrt(a * 4^zeros)) and its remainder;
\* i counts the pairs of bits still to be taken
RECURSIVE BSqrtLoop(_, _, _, _, _)
BSqrtLoop(root, rem, a, zeros, i) ==
    IF i = 0 THEN [q |-> root, r |-> rem]
    ELSE IF BCmp(BSqrtShiftIn(rem, a, zeros, i), BSqrtTrial(root)) >= 0
    THEN BSqrtLoop(BAddSmall(BDouble(root), 1),
                   BSub(BSqrtShiftIn(rem, a, zeros, i), BSqrtTrial(root)),
                   a, zeros, i - 1)
    ELSE BSqrtLoop(BDouble(root), BSqrtShiftIn(rem, a, zeros, i), a, zeros, i - 1)

BSqrtRem(a, pairs, zeros) ==
    BSqrtLoop(<<>>, <<>>, a, zeros, pairs + zeros)

----------------------------------------------------------------------------
(* binary64 floats.  A non-zero float is s (1 = negative), m (mantissa,    *)
(* 2^52 <= m < 2^53) and e, with value (-1)^s * m * 2^e.                   *)

FZero == [s |-> 0, m |-> <<>>, e |-> 0]

IsZero(a) == a.m = <<>>

\* round n * 2^e (plus a positive amount below one unit of n when sticky)
\* to the nearest float, ties to even
RoundsUp(n, sh, q, sticky) ==
    LET c == BCmp(BSub(n, BShl(q, sh)), BShl(BOne, sh - 1))
    IN  c > 0 \/ (c = 0 /\ (sticky \/ BOdd(q)))

FRenorm(s, q1, e) ==
    IF BBitLen(q1) > MantBits
    THEN [s |-> s, m |-> BShr(q1, 1), e |-> e + 1]
    ELSE [s |-> s, m |-> q1, e |-> e]

FRoundShift(s, n, e, sticky, sh, q) ==
    FRenorm(s, IF RoundsUp(n, sh, q, sticky) THEN BAdd(q, BOne) ELSE q, e + sh)

FRoundLen(s, n, e, sticky, len) ==
    IF len <= MantBits
    THEN [s |-> s, m |-> BShl(n, MantBits - len), e |-> e - (MantBits - len)]
    ELSE FRoundShift(s, n, e, sticky, len - MantBits, BShr(n, len - MantBits))

FRound(s, n, e, sticky) ==
    IF n = <<>> THEN FZero
    ELSE FRoundLen(s, n, e, sticky, BBitLen(n))

\* conversion of a Python int (exact for |k| < 2^53)
FromInt(k) ==
    IF k < 0 THEN FRound(1, BFromNat(-k), 0, FALSE)
    ELSE FRound(0, BFromNat(k), 0, FALSE)

FNeg(a) == IF IsZero(a) THEN a ELSE [a EXCEPT !.s = 1 - a.s]

FAbs(a) == [a EXCEPT !.s = 0]

FMul(a, b) ==
    IF IsZero(a) \/ IsZero(b) THEN FZero
    ELSE FRound((a.s + b.s) % 2, BMul(a.m, b.m), a.e + b.e, FALSE)

\* (-1)^sa * x + (-1)^sb * y, times 2^e, rounded
FAddAligned(sa, x, sb, y, e) ==
    FRound(IF sa = sb \/ BCmp(x, y) >= 0 THEN sa ELSE sb,
           IF sa = sb THEN BAdd(x, y)
           ELSE IF BCmp(x, y) >= 0 THEN BSub(x, y)
           ELSE BSub(y, x),
           e, FALSE)

FAddAt(a, b, e) ==
    FAddAligned(a.s, BShl(a.m, a.e - e), b.s, BShl(b.m, b.e - e), e)

FAdd(a, b) ==
    IF IsZero(a) THEN b
    ELSE IF IsZero(b) THEN a
    ELSE FAddAt(a, b, IF a.e < b.e THEN a.e ELSE b.e)

FSub(a, b) == FAdd(a, FNeg(b))

\* quotient limbs computed by FDiv below the leading quotient bit
DivLimbs == 4

FDivRound(a, b, first, d) ==
    FRound((a.s + b.s) % 2,
           IF first THEN Append(d.q, 1) ELSE BNorm(d.q),
           a.e - b.e - DivLimbs * LimbBits,
           d.r # <<>>)

FDivFrom(a, b, first) ==
    FDivRound(a, b, first,
              BDivLimbs(IF first THEN BSub(a.m, b.m) ELSE a.m, b.m, DivLimbs))

\* a / b for b # 0
FDiv(a, b) ==
    IF IsZero(a) THEN FZero
    ELSE FDivFrom(a, b, BCmp(a.m, b.m) >= 0)

\* pairs of zero bits appended to the mantissa before the root is taken
SqrtZeros == 28

FSqrtRound(d, e) == FRound(0, d.q, e, d.r # <<>>)

\* sqrt(a) for a >= 0: the mantissa is doubled when the exponent is odd
FSqrt(a) ==
    IF IsZero(a) THEN FZero
    ELSE IF a.e % 2 = 0
    THEN FSqrtRound(BSqrtRem(a.m, 27, SqrtZeros), (a.e \div 2) - SqrtZeros)
    ELSE FSqrtRound(BSqrtRem(BDouble(a.m), 27, SqrtZeros),
                    ((a.e - 1) \div 2) - SqrtZeros)

\* -1, 0, 1 as |a| < |b|, |a| = |b|, |a| > |b|, for non-zero a and b
MagCmp(a, b) ==
    LET la == a.e + MantBits
        lb == b.e + MantBits
    IN  IF la < lb THEN -1 ELSE IF la > lb THEN 1 ELSE BCmp(a.m, b.m)

\* -1, 0, 1 as a < b, a = b, a > b
FCmp(a, b) ==
    IF IsZero(a) /\ IsZero(b) THEN 0
    ELSE IF IsZero(a) THEN (IF b.s = 1 THEN 1 ELSE -1)
    ELSE IF IsZero(b) THEN (IF a.s = 1 THEN -1 ELSE 1)
    ELSE IF a.s # b.s THEN (IF a.s = 1 THEN -1 ELSE 1)
    ELSE IF a.s = 0 THEN MagCmp(a, b) ELSE MagCmp(b, a)

FGt(a, b) == FCmp(a, b) > 0

\* a float literal num/den of the source, parsed to the nearest float
FLit(num, den) == FDiv(FromInt(num), FromInt(den))

----------------------------------------------------------------------------
(* The detector object and its two methods.                                *)

\* Python's None, and the absence of an object
None == [none |-> TRUE]
Absent == [absent |-> TRUE]

\* AnomalyDetector.__init__(self, alpha, z_threshold)
init(alpha, z_threshold) ==
    [alpha       |-> alpha,
     z_threshold |-> z_threshold,
     ewma        |-> None,
     variance    |-> FZero,
     n           |-> 0]

\* Next to each step of detect stand faulty variants of it (a forgotten
\* assignment, a wrong operand); the properties below are also checked
\* against them, to show that they depend on the step.

\* detect, lines 33-36: the first data point initialises the object
FirstPointNoCount(self, new_value) ==
    [self EXCEPT !.ewma = new_value, !.variance = FZero]

FirstPointZeroMean(self, new_value) ==
    [self EXCEPT !.ewma = FZero, !.variance = FZero, !.n = 1]

FirstPoint(self, new_value) ==
    [self EXCEPT !.ewma = new_value, !.variance = FZero, !.n = 1]

\* detect, line 40: alpha * new_value + (1 - alpha) * ewma
Ewma(self, new_value) ==
    FAdd(FMul(self.alpha, new_value),
         FMul(FSub(FromInt(1), self.alpha), self.ewma))

\* detect, line 41: alpha * (new_value - ewma) ** 2 + (1 - alpha) * variance,
\* where ewma is the mean already updated by line 40; the square is the
\* correctly rounded product
VarianceOldMean(self, new_value, ewma) ==
    LET resid == FSub(new_value, self.ewma)
    IN  FAdd(FMul(self.alpha, FMul(resid, resid)),
             FMul(FSub(FromInt(1), self.alpha), self.variance))

VarianceMinus(self, new_value, ewma) ==
    LET resid == FSub(new_value, ewma)
    IN  FSub(FMul(self.alpha, FMul(resid, resid)),
             FMul(FSub(FromInt(1), self.alpha), self.variance))

Variance(self, new_value, ewma) ==
    LET resid == FSub(new_value, ewma)
    IN  FAdd(FMul(self.alpha, FMul(resid, resid)),
             FMul(FSub(FromInt(1), self.alpha), self.variance))

\* detect, line 42: np.sqrt(self.variance)
StdDevNoSqrt(variance) == variance

StdDev(variance) == FSqrt(variance)

\* detect, line 45: abs(new_value - ewma) / std_dev if std_dev != 0 else 0
ZScore(new_value, ewma, std_dev) ==
    IF ~IsZero(std_dev)
    THEN FDiv(FAbs(FSub(new_value, ewma)), std_dev)
    ELSE FZero

\* detect, line 48: z_score > z_threshold
IsAnomalyBelow(z_score, z_threshold) == FGt(z_threshold, z_score)

IsAnomaly(z_score, z_threshold) == FGt(z_score, z_threshold)

\* detect, lines 51-52: the number of lines printed
PrintLinesAlways(is_anomaly) == 1

PrintLines(is_anomaly) == IF is_anomaly THEN 1 ELSE 0

\* detect, lines 54-56: the object after the call, the returned bool, the
\* locals z_score and std_dev and the number of lines printed
detectReturn(self, ewma, variance, std_dev, z_score, is_anomaly) ==
    [self    |-> [self EXCEPT !.ewma = ewma, !.variance = variance,
                              !.n = self.n + 1],
     ret     |-> is_anomaly,
     z_score |-> z_score,
     std_dev |-> std_dev,
     lines   |-> PrintLines(is_anomaly)]

\* detect from line 48 on
detectFrom48(self, ewma, variance, std_dev, z_score) ==
    detectReturn(self, ewma, variance, std_dev, z_score,
                 IsAnomaly(z_score, self.z_threshold))

\* detect from line 45 on
detectFrom45(self, new_value, ewma, variance, std_dev) ==
    detectFrom48(self, ewma, variance, std_dev,
                 ZScore(new_value, ewma, std_dev))

\* detect from line 42 on
detectFrom42(self, new_value, ewma, variance) ==
    detectFrom45(self, new_value, ewma, variance, StdDev(variance))

\* detect from line 41 on
detectFrom41(self, new_value, ewma) ==
    detectFrom42(self, new_value, ewma, Variance(self, new_value, ewma))

\* AnomalyDetector.detect(self, new_value); z_score and std_dev are None on
\* the path that does not compute them
detect(self, new_value) ==
    IF self.ewma = None
    THEN [self    |-> FirstPoint(self, new_value),
          ret     |-> FALSE,
          z_score |-> None,
          std_dev |-> None,
          lines   |-> 0]
    ELSE detectFrom41(self, new_value, Ewma(self, new_value))

----------------------------------------------------------------------------
(* The callers: constructor arguments and observations.                    *)

\* longest stream of observations fed to a detector
MaxCalls == 5

Dets == {1, 2}

\* (alpha, z_threshold) passed to the constructor: the configuration of the
\* demo loop, the default arguments, arguments outside the documented
\* ranges, and thresholds at and above 1/sqrt(alpha)
Configs ==
    { <<FLit(1, 10), FLit(5, 2)>>,
      <<FLit(1, 2), FromInt(-2)>>,
      <<FromInt(0), FromInt(2)>>,
      <<FromInt(1), FromInt(2)>>,
      <<FLit(1, 10), FromInt(0)>>,
      <<FLit(1, 10), FromInt(-1)>>,
      <<FLit(1, 4), FromInt(2)>>,
      <<FLit(1, 2), FromInt(2)>>,
      <<FLit(3, 10), FSqrt(FDiv(FromInt(1), FLit(3, 10)))>> }

\* configurations of a pair of detectors with the same alpha
PairConfigs ==
    { <<FLit(1, 10), FLit(5, 2), FromInt(2)>>,
      <<FLit(1, 10), FromInt(2), FLit(5, 2)>>,
      <<FLit(1, 2), FromInt(1), FromInt(1)>>,
      <<FLit(3, 10), FromInt(1), FSqrt(FDiv(FromInt(1), FLit(3, 10)))>> }

\* observations
Values == {FromInt(10), FromInt(50), FromInt(26)}

VARIABLES det, last, stdout, stream

vars == <<det, last, stdout, stream>>

NoCall == [called |-> FALSE]

Init ==
    /\ det = [d \in Dets |-> Absent]
    /\ last = [d \in Dets |-> NoCall]
    /\ stdout = 0
    /\ stream = <<>>

\* detector = AnomalyDetector(alpha=..., z_threshold=...)
New(d, alpha, z_threshold) ==
    /\ det[d] = Absent
    /\ det' = [det EXCEPT ![d] = init(alpha, z_threshold)]
    /\ UNCHANGED <<last, stdout, stream>>

\* what a call was given and what it computed: the object before the call,
\* the observation, the returned bool and the locals
CallResult(self, r, x) ==
    [called |-> TRUE, before |-> self, value |-> x, ret |-> r.ret,
     z_score |-> r.z_score, std_dev |-> r.std_dev]

\* is_anomaly = detector.detect(data_point)
Detect(x) ==
    /\ det[1] # Absent
    /\ det[2] = Absent
    /\ Len(stream) < MaxCalls
    /\ \E r \in {detect(det[1], x)} :
          /\ det' = [det EXCEPT ![1] = r.self]
          /\ last' = [last EXCEPT ![1] = CallResult(det[1], r, x)]
          /\ stdout' = stdout + r.lines
    /\ stream' = Append(stream, x)

Next ==
    \/ \E c \in Configs : New(1, c[1], c[2])
    \/ \E x \in Values : Detect(x)

Spec == Init /\ [][Next]_vars

\* two detectors with the same alpha, constructed together
NewPair(alpha, z1, z2) ==
    /\ det[1] = Absent
    /\ det[2] = Absent
    /\ det' = [d \in Dets |-> init(alpha, IF d = 1 THEN z1 ELSE z2)]
    /\ UNCHANGED <<last, stdout, stream>>

\* the same observation fed to both detectors
DetectPair(x) ==
    /\ det[1] # Absent
    /\ det[2] # Absent
    /\ Len(stream) < MaxCalls
    /\ \E r \in {[d \in Dets |-> detect(det[d], x)]} :
          /\ det' = [d \in Dets |-> r[d].self]
          /\ last' = [d \in Dets |-> CallResult(det[d], r[d], x)]
          /\ stdout' = stdout + r[1].lines + r[2].lines
    /\ stream' = Append(stream, x)

NextPair ==
    \/ \E c \in PairConfigs : NewPair(c[1], c[2], c[3])
    \/ \E x \in Values : DetectPair(x)

SpecPair == Init /\ [][NextPair]_vars

----------------------------------------------------------------------------
(* Properties.                                                             *)

FOne == FromInt(1)

Present == {d \in Dets : det[d] # Absent}

Called == {d \in Dets : last[d].called}

\* 0 < alpha < 1
ValidAlpha(o) == FGt(o.alpha, FZero) /\ FGt(FOne, o.alpha)

\* 0 < alpha < 1 and z_threshold > 0
ValidConfig(o) == ValidAlpha(o) /\ FGt(o.z_threshold, FZero)

AllSame(q) == \A i \in 1..Len(q) : q[i] = q[1]

\* C1: constructing a detector with alpha outside (0, 1) or z_threshold <= 0
\* fails and yields no usable detector, so every detector that exists has
\* 0 < alpha < 1 and z_threshold > 0.
C1_ConstructionValidated ==
    \A d \in Present : ValidConfig(det[d])

\* C2: the first call to detect on a fresh detector returns False and leaves
\* ewma equal to the value, variance 0 and n equal to 1, whatever the
\* configuration.
C2_FirstPoint ==
    \A d \in Called :
        Len(stream) = 1 =>
            /\ last[d].ret = FALSE
            /\ det[d].ewma = stream[1]
            /\ det[d].variance = FZero
            /\ det[d].n = 1

C2_Witness ==
    /\ Len(stream) = 1
    /\ last[1].called
    /\ det[1].ewma = FromInt(50)

\* C3: with 0 < alpha < 1 the variance, and the standard deviation computed
\* from it, is >= 0 initially and after every call to detect.
C3_VarianceNonNegative ==
    \A d \in Present :
        ValidAlpha(det[d]) =>
            /\ FCmp(det[d].variance, FZero) >= 0
            /\ (last[d].called /\ last[d].std_dev # None)
                  => FCmp(last[d].std_dev, FZero) >= 0

C3_Witness ==
    /\ det[1] # Absent
    /\ ValidAlpha(det[1])
    /\ det[1].n >= 3
    /\ FGt(det[1].variance, FZero)

\* C4: if every observation fed to a detector with 0 < alpha < 1 is the same
\* value, then after every call the variance is 0, the computed z_score is 0
\* and the call did not return True.
C4_ZeroVarianceSafety ==
    \A d \in Called :
        (ValidAlpha(det[d]) /\ AllSame(stream)) =>
            /\ det[d].variance = FZero
            /\ last[d].z_score \in {None, FZero}
            /\ last[d].ret = FALSE

\* C5: two detectors with the same alpha fed the same observations, the
\* second with a threshold at least the first's: whatever the second flags
\* the first flags too, and both hold the same mean and variance.
C5_ThresholdMonotone ==
    (/\ Present = Dets
     /\ det[1].alpha = det[2].alpha
     /\ FCmp(det[2].z_threshold, det[1].z_threshold) >= 0)
    => /\ det[1].ewma = det[2].ewma
       /\ det[1].variance = det[2].variance
       /\ det[1].n = det[2].n
       /\ (last[2].called /\ last[2].ret) => (last[1].called /\ last[1].ret)

C5_Witness ==
    /\ Present = Dets
    /\ FGt(det[2].z_threshold, det[1].z_threshold)
    /\ last[1].called /\ last[2].called
    /\ last[1].ret
    /\ ~last[2].ret

C7_MeanDefinedIffCounted ==
    \A d \in Present : (det[d].ewma # None) <=> (det[d].n >= 1)

C7_Witness ==
    /\ det[1] # Absent
    /\ det[1].ewma # None
    /\ det[1].n = 2

----------------------------------------------------------------------------
(* Exact (unrounded) arithmetic on the magnitudes of floats, to state      *)
(* properties about real numbers: m * 2^e with m a natural number.         *)

DExact(a) == [m |-> a.m, e |-> a.e]

DMul(a, b) == [m |-> BMul(a.m, b.m), e |-> a.e + b.e]

\* -1, 0, 1 as a < b, a = b, a > b
DCmp(a, b) ==
    LET e == IF a.e < b.e THEN a.e ELSE b.e
    IN  BCmp(BShl(a.m, a.e - e), BShl(b.m, b.e - e))

DOne == [m |-> BOne, e |-> 0]

\* 1 + 2^-50 and 1 - 2^-50
DOnePlusEps == [m |-> BAdd(BShl(BOne, 50), BOne), e |-> -50]
DOneMinusEps == [m |-> BSub(BShl(BOne, 50), BOne), e |-> -50]

\* alpha * z^2 as a real number
AlphaSq(alpha, z) == DMul(DExact(alpha), DMul(DExact(z), DExact(z)))

Front(q) == SubSeq(q, 1, Len(q) - 1)

\* the last call to detect on d came after a run of identical observations
\* that left the variance at 0, with a different observation
RunThenJump(d) ==
    /\ last[d].called
    /\ Len(stream) >= 2
    /\ AllSame(Front(stream))
    /\ last[d].before.variance = FZero
    /\ stream[Len(stream)] # stream[1]

Demo(o) == o.alpha = FLit(1, 10) /\ o.z_threshold = FLit(5, 2)

Tens == [i \in 1..4 |-> FromInt(10)]

\* alpha = 0.1, z_threshold = 2.5 and the observations 10, 10, 10, 10, 50
Scenario ==
    \A d \in Called :
        Demo(det[d]) =>
            /\ (Len(stream) <= 4 /\ stream = SubSeq(Tens, 1, Len(stream)))
                  => (~last[d].ret /\ det[d].variance = FZero
                      /\ last[d].std_dev \in {None, FZero})
            /\ stream = Append(Tens, FromInt(50)) => last[d].ret

C9_UpdateRule ==
    \A d \in Called :
        last[d].before.ewma # None =>
            \A a \in {last[d].before.alpha} :
            \A x \in {last[d].value} :
            \A m1 \in {FAdd(FMul(a, x), FMul(FSub(FOne, a), last[d].before.ewma))} :
            \A r1 \in {FSub(x, m1)} :
            \A s1 \in {FAdd(FMul(a, FMul(r1, r1)),
                            FMul(FSub(FOne, a), last[d].before.variance))} :
                /\ det[d].ewma = m1
                /\ det[d].variance = s1
                /\ det[d].n = last[d].before.n + 1
                /\ det[d].alpha = a
                /\ det[d].z_threshold = last[d].before.z_threshold
                /\ last[d].ret <=>
                      (/\ ~IsZero(s1)
                       /\ FGt(FDiv(FAbs(r1), FSqrt(s1)), det[d].z_threshold))

\* C10: with 0 < alpha < 1 every z_score computed by detect satisfies
\* alpha * z_score^2 <= 1, and a detector with alpha * z_threshold^2 >= 1
\* never flags an observation.
C10_ZScoreBound ==
    \A d \in Called :
        (ValidAlpha(det[d]) /\ last[d].z_score # None) =>
            /\ DCmp(AlphaSq(det[d].alpha, last[d].z_score), DOne) <= 0
            /\ DCmp(AlphaSq(det[d].alpha, det[d].z_threshold), DOne) >= 0
                  => ~last[d].ret

\* C10 (amended): with 0 < alpha < 1 every z_score computed by detect
\* satisfies alpha * z_score^2 <= 1 + 2^-50, and a detector with
\* z_threshold > 0 and alpha * z_threshold^2 >= 1 + 2^-50 never flags an
\* observation.
C10_ZScoreBoundWithinRounding ==
    \A d \in Called :
        (ValidAlpha(det[d]) /\ last[d].z_score # None) =>
            /\ DCmp(AlphaSq(det[d].alpha, last[d].z_score), DOnePlusEps) <= 0
            /\ (/\ FGt(det[d].z_threshold, FZero)
                /\ DCmp(AlphaSq(det[d].alpha, det[d].z_threshold), DOnePlusEps) >= 0)
                  => ~last[d].ret

C10_Witness ==
    /\ det[1] # Absent
    /\ ValidConfig(det[1])
    /\ det[1].n >= 3
    /\ last[1].z_score # None
    /\ DCmp(AlphaSq(det[1].alpha, last[1].z_score), DOne) > 0
    /\ DCmp(AlphaSq(det[1].alpha, det[1].z_threshold), DOnePlusEps) >= 0
    /\ ~last[1].ret

====
